---- MODULE Spec2Model ----
(***************************************************************************)
(* A model of rpn.py, the RPN calculator: the fixed-size rolling stack,    *)
(* the token dispatcher of calc() with its cursor n, and the program       *)
(* engine (lbl / exc / gsb / gto / rtn).                                   *)
(*                                                                         *)
(* Conventions.                                                            *)
(*  - Python lists are TLA+ sequences; the code's indices are 0-based and  *)
(*    are kept 0-based here: At(s, i) is s[i] of the code.                 *)
(*  - Tokens are strings; str.lower(), the numeric test on token[0] and    *)
(*    float(token) are computed character by character.                    *)
(*  - A stack value is an exact rational [num, den] in lowest terms with   *)
(*    den > 0; the rounding of binary64 arithmetic is not modelled.        *)
(*  - An exception is a value of the handler's outcome; Finish translates  *)
(*    the try/except ladder at the end of the dispatch loop.               *)
(***************************************************************************)
EXTENDS Integers, Sequences, FiniteSets, TLC

\* ------------------------------------------------------------------ bounds
\* Start-up stacks hold x and y drawn from -MaxInit..MaxInit.
MaxInit == 1
\* Input lines are a head followed by at most MaxTail further tokens.
MaxTail == 3
\* The pure push/pull harness draws stacks of depth 1..MaxDepth.
MaxDepth == 4

\* the number of input lines of a statistics session
MaxStatLines == 3

\* the number of input lines of a session that runs programs
MaxProgLines == 2

\* ------------------------------------------------- program constants
stack_size == 4
stack_min == 4

\* ------------------------------------------------------------ sequences
At(s, i) == s[i + 1]

Last(s) == s[Len(s)]

Front(s) == SubSeq(s, 1, Len(s) - 1)

\* s with the element at 0-based index i replaced by v (s[i] = v)
SetAt(s, i, v) == [s EXCEPT ![i + 1] = v]

\* -------------------------------------------------------------- values
Abs(a) == IF a < 0 THEN -a ELSE a

RECURSIVE GCD(_, _)
GCD(a, b) == IF b = 0 THEN a ELSE GCD(b, a % b)

\* the rational a/b (b # 0) in lowest terms
Rat(a, b) ==
  LET g == GCD(Abs(a), Abs(b))
      s == IF b < 0 THEN -1 ELSE 1
  IN  [num |-> (s * a) \div g, den |-> (s * b) \div g]

Num(i) == [num |-> i, den |-> 1]

Zero == Num(0)

RAdd(a, b) == Rat(a.num * b.den + b.num * a.den, a.den * b.den)

RSub(a, b) == Rat(a.num * b.den - b.num * a.den, a.den * b.den)

RMul(a, b) == Rat(a.num * b.num, a.den * b.den)

\* a / b for b # Zero
RDiv(a, b) == Rat(a.num * b.den, a.den * b.num)

RNeg(a) == [num |-> -a.num, den |-> a.den]

RLt(a, b) == a.num * b.den < b.num * a.den

RLe(a, b) == a.num * b.den <= b.num * a.den

IsZero(a) == a.num = 0

\* ------------------------------------------------------------- strings
Digits == {"0", "1", "2", "3", "4", "5", "6", "7", "8", "9"}

DigitVal ==
  [c \in Digits |->
     CASE c = "0" -> 0 [] c = "1" -> 1 [] c = "2" -> 2 [] c = "3" -> 3
       [] c = "4" -> 4 [] c = "5" -> 5 [] c = "6" -> 6 [] c = "7" -> 7
       [] c = "8" -> 8 [] c = "9" -> 9]

Upper ==
  [A |-> "a", B |-> "b", C |-> "c", D |-> "d", E |-> "e", F |-> "f",
   G |-> "g", H |-> "h", I |-> "i", J |-> "j", K |-> "k", L |-> "l",
   M |-> "m", N |-> "n", O |-> "o", P |-> "p", Q |-> "q", R |-> "r",
   S |-> "s", T |-> "t", U |-> "u", V |-> "v", W |-> "w", X |-> "x",
   Y |-> "y", Z |-> "z"]

CharAt(s, i) == SubSeq(s, i + 1, i + 1)

Rest(s) == SubSeq(s, 2, Len(s))

\* str.lower()
RECURSIVE Lower(_)
Lower(s) ==
  IF Len(s) = 0 THEN s
  ELSE LET c == CharAt(s, 0)
       IN  (IF c \in DOMAIN Upper THEN Upper[c] ELSE c) \o Lower(Rest(s))

RECURSIVE AllDigits(_)
AllDigits(s) == Len(s) = 0 \/ (CharAt(s, 0) \in Digits /\ AllDigits(Rest(s)))

\* value of a string of digits read after the digits worth acc
RECURSIVE DigitsVal(_, _)
DigitsVal(s, acc) ==
  IF Len(s) = 0 THEN acc
  ELSE DigitsVal(Rest(s), 10 * acc + DigitVal[CharAt(s, 0)])

RECURSIVE Pow10(_)
Pow10(k) == IF k = 0 THEN 1 ELSE 10 * Pow10(k - 1)

\* index of the first "." of s, or Len(s) when there is none
RECURSIVE DotIndex(_)
DotIndex(s) ==
  IF Len(s) = 0 \/ CharAt(s, 0) = "." THEN 0 ELSE 1 + DotIndex(Rest(s))

\* a float() that takes any text for 0.0
ParseFloatNoRaise(tok) == [ok |-> TRUE, val |-> Zero]

\* float(token) for the decimal literals [sign] digits [. digits]; any other
\* text raises ValueError (exponents, "inf", "nan" and "_" are not in the
\* vocabulary of the model).
ParseFloat(tok) ==
  LET signed == Len(tok) > 0 /\ CharAt(tok, 0) \in {"+", "-"}
      body == IF signed THEN Rest(tok) ELSE tok
      dot == DotIndex(body)
      ip == SubSeq(body, 1, dot)
      fp == SubSeq(body, dot + 2, Len(body))
      ok == AllDigits(ip) /\ AllDigits(fp) /\ Len(ip) + Len(fp) > 0
      mag == Rat(DigitsVal(ip \o fp, 0), Pow10(Len(fp)))
  IN  IF ~ok THEN [ok |-> FALSE, val |-> Zero]
      ELSE [ok |-> TRUE,
            val |-> IF signed /\ CharAt(tok, 0) = "-" THEN RNeg(mag) ELSE mag]

\* the numeric test of the dispatcher
IsNumeric(token) ==
  \/ CharAt(token, 0) \in Digits
  \/ (CharAt(token, 0) \in {".", "+", "-"} /\ Len(token) > 1)

\* --------------------------------------------------------------- stack
\* initstack(st_size): max(st_size, stack_min) zeros
initstack(st_size) ==
  [i \in 1..(IF st_size > stack_min THEN st_size ELSE stack_min) |-> Zero]

\* the loop of push: i runs from len-1 down to 1, stack[i] = stack[i-1]
RECURSIVE PushLoop(_, _)
PushLoop(s, i) ==
  IF i = 0 THEN s ELSE PushLoop(SetAt(s, i, At(s, i - 1)), i - 1)

pushAppend(s, num) == <<num>> \o s

push(s, num) == SetAt(PushLoop(s, Len(s) - 1), 0, num)

\* the loop of pull: i runs from 0 up to len-2, stack[i] = stack[i+1]
RECURSIVE PullLoop(_, _)
PullLoop(s, i) ==
  IF i < Len(s) - 1 THEN PullLoop(SetAt(s, i, At(s, i + 1)), i + 1) ELSE s

pullPop(s) == [num |-> At(s, 0), stack |-> Rest(s) \o <<Zero>>]

\* pull(): the value returned and the stack it leaves
pull(s) == [num |-> At(s, 0), stack |-> PullLoop(s, 0)]

\* ------------------------------------------------------------ the state
VARIABLES
  stack,        \* the rolling stack, x at index 0
  mem,          \* the storage registers: name -> value
  kbsc,         \* the user's keyboard shortcuts: alias -> token
  prog_listing, \* the tokens of the program file
  cmd_ln,       \* the active token sequence
  n,            \* the token iterator (cursor) into cmd_ln
  pdict,        \* the label map built by exc
  lbl_rtn,      \* the return-address stack
  bound,        \* which of the locals "pdict", "lbl_rtn" an exc has assigned
  pc,           \* where calc() is: "prompt", "loop", "exited", "crashed", or
                \* "fn" / "done" in the push/pull harness
  err,          \* the exception the last step raised, "none" if none
  decimal_places, \* the display precision set by fix
  stat_regs,    \* the statistics accumulator: the six sums Sn .. Sxy and
                \* the derived Mx, My, CCr, Sa, YIb
  lineNo,       \* the number of input lines read
  stack0,       \* history: the stack as it was when the line was read
  stat_log,     \* history: the accumulator at start-up and what stat has
                \* done to the sums since (add, undo, clear)
  calls,        \* history: the gsb calls to a defined label not yet returned
                \* from, each with its cursor and the return-stack depth
  prev          \* history: the step just taken and the state it started from

vars ==
  <<stack, mem, kbsc, prog_listing, cmd_ln, n, pdict, lbl_rtn, bound, pc,
    err, decimal_places, stat_regs, lineNo, stack0, stat_log, calls, prev>>

\* a local variable of calc() that no assignment has bound yet
Unbound(v) == v \notin bound

EmptyMap == << >>

Put(f, k, v) == [a \in DOMAIN f \cup {k} |-> IF a = k THEN v ELSE f[a]]

\* the fixed shortcut table
kbsc2 ==
  ("c.f" :> "c>f") @@ ("f.c" :> "f>c") @@ ("p.r" :> "p>r") @@
  ("r.p" :> "r>p") @@ ("x,0?" :> "x<0?") @@ ("x,=0?" :> "x<=0?") @@
  ("x,=y?" :> "x<=y?") @@ ("x,y?" :> "x<y?") @@ ("x.0?" :> "x>0?") @@
  ("x.=0?" :> "x>=0?") @@ ("x.=y?" :> "x>=y?") @@ ("x.y?" :> "x>y?") @@
  ("=" :> "+") @@ ("**" :> "^")

\* the shortcut table created when there is no .mem file
DefaultKbsc ==
  ("#" :> "rand") @@ ("[" :> "stat") @@ ("a" :> "+") @@ ("b" :> "xroot") @@
  ("c" :> "chs") @@ ("d" :> "/") @@ ("f" :> "!") @@ ("g" :> "gamma") @@
  ("h" :> "help") @@ ("i" :> "inv") @@ ("j" :> "rad") @@ ("k" :> "scut") @@
  ("l" :> "ln") @@ ("m" :> "mem") @@ ("n" :> "frac") @@ ("o" :> "^") @@
  ("p" :> "prog") @@ ("q" :> "exc") @@ ("r" :> "sqrt") @@ ("s" :> "-") @@
  ("t" :> "sq") @@ ("u" :> "deg") @@ ("v" :> "int") @@ ("w" :> "show") @@
  ("x" :> "*") @@ ("y" :> "swap") @@ ("z" :> "abs")

\* ----------------------------------------------------------- the inputs
\* The program file: several programs in one listing.
Listing ==
  <<"LBL", "A", "1", "GSB", "B", "2", "RTN",
    "lbl", "B", "3", "gsb", "C", "chs", "rtn",
    "lbl", "C", "sq", "rtn",
    "lbl", "D", "gto", "C", "9", "rtn",
    "lbl", "F", "gsb", "G", "4", "rtn",
    "lbl", "G", "exc", "C", "5", "rtn",
    "lbl", "H", "gsb", "Z", "5", "rtn",
    "lbl", "I", "gsb", "H", "6", "rtn",
    "lbl", "K", "1", "rtn",
    "lbl", "K", "2", "rtn",
    "lbl", "T", "x=0?", "gto", "C", "8", "rtn",
    "lbl", "J", "gto", "Z", "6", "rtn",
    "lbl", "L", "exc", "Z", "6", "rtn",
    "lbl", "M", "0", "/", "6", "rtn",
    "lbl", "N", "gto", "K", "9", "rtn",
    "lbl", "O", "gsb", "K", "8", "rtn",
    "lbl", "S", "2", "1", "stat", "rtn",
    "lbl", "E", "7">>

Tests0 == {"x=0?", "x!=0?", "x>0?", "x<0?", "x>=0?", "x<=0?"}

TestsY == {"x=y?", "x!=y?", "x>y?", "x<y?", "x>=y?", "x<=y?"}

Tests == Tests0 \cup TestsY

\* operators that take no argument token
PlainOps ==
  {"+", "-", "*", "/", "%", "%c", "chs", "abs", "sq", "inv", "swap", "dup",
   "clr", "rd", "ru", "rtn", "nop", "stat", "^"} \cup Tests

\* operators that read the token after them
ArgOps ==
  {"sto", "rcl", "del", "fix", "scutadd", "scutdel", "lbl", "exc", "gsb",
   "gto"}

\* the argument operators tried with every name of ArgNames
NamedOps == {"sto", "rcl", "lbl", "exc", "gsb", "gto"}

ArgNames == {"A", "R1", "Z"}

ExcNames ==
  {"A", "B", "C", "D", "F", "H", "I", "K", "T", "E", "a", "J", "L", "M"}

Literals == {"5", "-5", "0", ".5", "10", "1x", "-abc"}

OtherTokens == {"R1", "bogus", "X>0?", "=", "x.0?", "DUP"}

\* what may follow stat: the modifiers, a stat identifier, anything else
StatMods == {"clear", "undo", "store", "est", "a", "n", "show"}

Heads ==
  {<<t>> : t \in PlainOps \cup ArgOps \cup Literals \cup OtherTokens}
    \cup {<<a, b>> : a \in NamedOps, b \in ArgNames}
    \cup {<<"del", "R1">>, <<"del", "Z">>, <<"fix", "2">>, <<"fix", "-3">>,
          <<"fix", "A">>, <<"scutdel", "a">>, <<"scutdel", "Z">>,
          <<"scutadd", "$">>, <<"scutadd", "$", "=", "$">>,
          <<"scutadd", "$", "x.y?", "$">>, <<"scutadd", "$", "chs", "$">>,
          <<"scutadd", "x.0?", "chs", "x.0?">>}
    \cup {<<"exc", b>> : b \in ExcNames}
    \cup {<<"5", "x>0?">>, <<"-5", "x>0?">>, <<"5", "1x">>,
          <<"4", "22", "7", "/", "+">>, <<"2", "3", "^">>,
          <<"200", "10", "%">>,
          <<"200", "10", "%c">>, <<"quit">>, <<"EXIT">>}
    \cup {<<"stat", m>> : m \in StatMods}
    \cup {<<"stat", "undo", "stat">>}

TailTokens == {"7", "chs"}

Tails == UNION {[1..k -> TailTokens] : k \in 0..MaxTail}

\* the lines the user may type; the empty line is just pressing ENTER
InputLines == {h \o t : h \in Heads, t \in Tails} \cup {<< >>}

\* the stacks a .mem file may restore (the zero-filled stack is among them)
InitStacks ==
  {<<Num(x), Num(y), Num(MaxInit + 1), Num(MaxInit + 2)>> :
     x \in -MaxInit..MaxInit, y \in -MaxInit..MaxInit}
    \cup {initstack(stack_size)}

InitMem == "R1" :> Num(9)

\* the derived statistics are recomputed only from sums like these
NonDegenerate(r) ==
  /\ RLt(Num(1), r.Sn)
  /\ RMul(r.Sn, r.Sx2) # RMul(r.Sx, r.Sx)
  /\ RMul(r.Sn, r.Sy2) # RMul(r.Sy, r.Sy)

\* Sn * Sxy - Sx * Sy
StatCov(r) == RSub(RMul(r.Sn, r.Sxy), RMul(r.Sx, r.Sy))

\* Sn * Sx2 - Sx ** 2
StatVarX(r) == RSub(RMul(r.Sn, r.Sx2), RMul(r.Sx, r.Sx))

\* the argument of math.sqrt in the correlation coefficient
SqrtArg(r) ==
  RMul(StatVarX(r), RSub(RMul(r.Sn, r.Sy2), RMul(r.Sy, r.Sy)))

\* the integer square root of v >= 0, by bisection on lo..hi
RECURSIVE ISqrt(_, _, _)
ISqrt(v, lo, hi) ==
  IF lo >= hi THEN lo
  ELSE LET mid == (lo + hi + 1) \div 2
       IN  IF mid * mid <= v THEN ISqrt(v, mid, hi) ELSE ISqrt(v, lo, mid - 1)

\* math.sqrt(q) for q >= 0, to two decimals
Sqrt(q) ==
  LET v == (q.num * 10000) \div q.den
  IN  Rat(ISqrt(v, 0, IF v < 46340 THEN v ELSE 46340), 100)

\* Mx, My, CCr, Sa, YIb computed from the sums, in the order of the code
Recompute(r) ==
  LET sa == RDiv(StatCov(r), StatVarX(r))
  IN  [r EXCEPT !.Mx = RDiv(r.Sx, r.Sn),
                !.My = RDiv(r.Sy, r.Sn),
                !.CCr = RDiv(StatCov(r), Sqrt(SqrtArg(r))),
                !.Sa = sa,
                !.YIb = RSub(RDiv(r.Sy, r.Sn), RDiv(RMul(sa, r.Sx), r.Sn))]

\* the recomputation stopped by math.sqrt's ValueError: Mx and My are set
RecomputeUpToSqrt(r) ==
  [r EXCEPT !.Mx = RDiv(r.Sx, r.Sn), !.My = RDiv(r.Sy, r.Sn)]

StatZero ==
  [Sn |-> Zero, Sx |-> Zero, Sy |-> Zero, Sx2 |-> Zero, Sy2 |-> Zero,
   Sxy |-> Zero, Mx |-> Zero, My |-> Zero, CCr |-> Zero, Sa |-> Zero,
   YIb |-> Zero]

\* the accumulator at the start of calc(): the sums of stat_regs, and the
\* derived values computed from them or set to 0
InitStat(sums) ==
  LET r == [StatZero EXCEPT !.Sn = sums.Sn, !.Sx = sums.Sx, !.Sy = sums.Sy,
                            !.Sx2 = sums.Sx2, !.Sy2 = sums.Sy2,
                            !.Sxy = sums.Sxy]
  IN  IF NonDegenerate(r) THEN Recompute(r) ELSE r

Init ==
  /\ stack \in InitStacks
  /\ mem = InitMem
  /\ kbsc = DefaultKbsc
  /\ prog_listing = Listing
  /\ cmd_ln = << >>
  /\ n = 0
  /\ pdict = EmptyMap
  /\ lbl_rtn = << >>
  /\ bound = {}
  /\ pc = "prompt"
  /\ err = "none"
  /\ decimal_places = 4
  /\ stat_regs = InitStat(StatZero)
  /\ lineNo = 0
  /\ stack0 = stack
  /\ stat_log = [start |-> stat_regs, ops |-> << >>]
  /\ calls = << >>
  /\ prev = [tok |-> "", n |-> 0, stack |-> stack, rtn |-> << >>,
             seq |-> << >>, calls |-> << >>, arg |-> Zero, ret |-> Zero]

\* ------------------------------------------------------- the dispatcher
\* a resolution that looks in the fixed table only for a token the user's
\* table does not have
ResolveUserFirst(raw, user) ==
  LET t0 == Lower(raw)
  IN  IF t0 \in DOMAIN user THEN user[t0]
      ELSE IF t0 \in DOMAIN kbsc2 THEN kbsc2[t0] ELSE t0

\* the token at the cursor after .lower() and the two shortcut tables
Resolve(raw, user) ==
  LET t0 == Lower(raw)
      t1 == IF t0 \in DOMAIN user THEN user[t0] ELSE t0
  IN  IF t1 \in DOMAIN kbsc2 THEN kbsc2[t1] ELSE t1

Token == Resolve(At(cmd_ln, n), kbsc)

\* the dispatch loop is about to handle the token at the cursor
AtToken == pc = "loop" /\ n < Len(cmd_ln)

\* the branch of the elif chain for operator t is the one taken
Dispatching(t) == AtToken /\ ~IsNumeric(Token) /\ Token = t

\* an exception list with no clause for the arithmetic errors
LineFatalValueOnly == {"ValueError"}

\* the exceptions whose except clause ends the line (break)
LineFatal == {"ValueError", "ZeroDivisionError", "OverflowError"}

\* an exception list with no clause for IndexError
LoggedKeyOnly == {"KeyError"}

\* the exceptions whose except clause only prints
Logged == {"IndexError", "KeyError"}

\* The end of one pass of the dispatch loop, for a handler that ended with
\* exception exc ("none": it completed) and the cursor at n1: the cursor
\* auto-advance, or the except clause that catches exc. An exception no
\* clause catches leaves calc() and ends the process.
Pass(exc, n1) ==
  /\ err' = exc
  /\ n' = IF exc = "none" THEN n1 + 1 ELSE IF exc \in LineFatal THEN 0 ELSE n1
  /\ pc' = IF exc = "none" \/ exc \in Logged THEN "loop"
           ELSE IF exc \in LineFatal THEN "prompt"
           ELSE "crashed"
  /\ prev' = [tok |-> Token, n |-> n, stack |-> stack, rtn |-> lbl_rtn,
              seq |-> cmd_ln, calls |-> calls, arg |-> Zero, ret |-> Zero]
  /\ UNCHANGED <<prog_listing, lineNo, stack0>>

\* the end of a pass for a handler that leaves the shortcuts, the display
\* precision and the statistics alone
Step(exc, n1) ==
  Pass(exc, n1) /\ UNCHANGED <<kbsc, decimal_places, stat_regs, stat_log>>

\* the end of a pass for a handler that is neither a call nor a return
Finish(exc, n1) == Step(exc, n1) /\ calls' = calls

\* the prompt: display the stack, read a line, handle quit and the empty line
ReadLineFrom(lines, max) ==
  /\ pc = "prompt"
  /\ lineNo < max
  /\ \E line \in lines :
       /\ cmd_ln' = line
       /\ n' = 0
       /\ lineNo' = lineNo + 1
       /\ IF Len(line) = 0
          THEN LET p == pull(stack)
               IN  /\ stack' = push(push(p.stack, p.num), p.num)
                   /\ pc' = "loop"
          ELSE /\ stack' = stack
               /\ pc' = IF Lower(At(line, 0)) \in {"quit", "exit", "close"}
                        THEN "exited" ELSE "loop"
       /\ prev' = [tok |-> "", n |-> 0, stack |-> stack, rtn |-> lbl_rtn,
                   seq |-> cmd_ln, calls |-> calls, arg |-> Zero,
                   ret |-> Zero]
  /\ err' = "none"
  /\ calls' = << >>
  /\ stack0' = stack
  /\ UNCHANGED <<mem, kbsc, prog_listing, pdict, lbl_rtn, bound,
                 decimal_places, stat_regs, stat_log>>

\* a session of one input line drawn from InputLines
ReadLine == ReadLineFrom(InputLines, 1)

\* the loop condition n < len(cmd_ln) fails: back to the prompt
EndOfLine ==
  /\ pc = "loop"
  /\ n >= Len(cmd_ln)
  /\ pc' = "prompt"
  /\ n' = 0
  /\ prev' = [tok |-> "", n |-> n, stack |-> stack, rtn |-> lbl_rtn,
              seq |-> cmd_ln, calls |-> calls, arg |-> Zero, ret |-> Zero]
  /\ UNCHANGED <<stack, mem, kbsc, prog_listing, cmd_ln, pdict, lbl_rtn,
                 bound, err, decimal_places, stat_regs, lineNo, stack0,
                 stat_log, calls>>

\* a numeric token: push(float(token))
DoNumber ==
  /\ AtToken
  /\ IsNumeric(Token)
  /\ LET f == ParseFloat(Token)
     IN  IF f.ok
         THEN stack' = push(stack, f.val) /\ Finish("none", n)
         ELSE stack' = stack /\ Finish("ValueError", n)
  /\ UNCHANGED <<mem, cmd_ln, pdict, lbl_rtn, bound>>

\* two pulls that take the operands in the other order
pull2Swapped(s) ==
  LET p == pull(s)
      q == pull(p.stack)
  IN  [x |-> q.num, y |-> p.num, stack |-> q.stack]

\* x = pull(); y = pull(): the two operands and the stack left
pull2(s) ==
  LET p == pull(s)
      q == pull(p.stack)
  IN  [x |-> p.num, y |-> q.num, stack |-> q.stack]

DoAdd ==
  /\ Dispatching("+")
  /\ LET o == pull2(stack) IN stack' = push(o.stack, RAdd(o.x, o.y))
  /\ Finish("none", n)
  /\ UNCHANGED <<mem, cmd_ln, pdict, lbl_rtn, bound>>

DoSub ==
  /\ Dispatching("-")
  /\ LET o == pull2(stack) IN stack' = push(o.stack, RSub(o.y, o.x))
  /\ Finish("none", n)
  /\ UNCHANGED <<mem, cmd_ln, pdict, lbl_rtn, bound>>

DoMul ==
  /\ Dispatching("*")
  /\ LET o == pull2(stack) IN stack' = push(o.stack, RMul(o.x, o.y))
  /\ Finish("none", n)
  /\ UNCHANGED <<mem, cmd_ln, pdict, lbl_rtn, bound>>

DoDiv ==
  /\ Dispatching("/")
  /\ LET o == pull2(stack)
     IN  IF IsZero(o.x)
         THEN stack' = o.stack /\ Finish("ZeroDivisionError", n)
         ELSE stack' = push(o.stack, RDiv(o.y, o.x)) /\ Finish("none", n)
  /\ UNCHANGED <<mem, cmd_ln, pdict, lbl_rtn, bound>>

\* y ** k for an integer k >= 0
RECURSIVE PowNat(_, _)
PowNat(y, k) == IF k = 0 THEN Num(1) ELSE RMul(y, PowNat(y, k - 1))

\* the largest r >= 0 with r ** q <= v, by bisection on lo..hi
RECURSIVE IRoot(_, _, _, _)
IRoot(v, q, lo, hi) ==
  IF lo >= hi THEN lo
  ELSE LET mid == (lo + hi + 1) \div 2
       IN  IF PowNat(Num(mid), q).num <= v THEN IRoot(v, q, mid, hi)
           ELSE IRoot(v, q, lo, mid - 1)

\* y ** x. An integer x gives the exact power (0.0 to a negative power
\* raises ZeroDivisionError); a fractional x on y >= 0 gives the root of the
\* power to one decimal; a fractional x on y < 0 gives a complex number,
\* which is no value of the model (marked by a zero denominator).
Pow(y, x) ==
  IF IsZero(y) /\ RLt(x, Zero) THEN [exc |-> "ZeroDivisionError", val |-> Zero]
  ELSE LET p == PowNat(y, Abs(x.num))
           q == IF RLt(x, Zero) THEN RDiv(Num(1), p) ELSE p
       IN  IF x.den = 1 THEN [exc |-> "none", val |-> q]
           ELSE IF RLt(y, Zero)
           THEN [exc |-> "none", val |-> [num |-> 0, den |-> 0]]
           ELSE LET v == (q.num * PowNat(Num(10), x.den).num) \div q.den
                IN  [exc |-> "none",
                     val |-> Rat(IRoot(v, x.den, 0, IF v < 1000 THEN v
                                                    ELSE 1000), 10)]

\* ^: x = pull(); y = pull(); push(y ** x)
DoPow ==
  /\ Dispatching("^")
  /\ LET o == pull2(stack)
         r == Pow(o.y, o.x)
     IN  IF r.exc = "none"
         THEN stack' = push(o.stack, r.val) /\ Finish("none", n)
         ELSE stack' = o.stack /\ Finish(r.exc, n)
  /\ UNCHANGED <<mem, cmd_ln, pdict, lbl_rtn, bound>>

\* the stack after "%": y is pushed back under the result
PercentNoY(s) ==
  LET o == pull2(s) IN push(o.stack, RMul(RDiv(o.x, Num(100)), o.y))

Percent(s) ==
  LET o == pull2(s)
  IN  push(push(o.stack, o.y), RMul(RDiv(o.x, Num(100)), o.y))

DoPercent ==
  /\ Dispatching("%")
  /\ stack' = Percent(stack)
  /\ Finish("none", n)
  /\ UNCHANGED <<mem, cmd_ln, pdict, lbl_rtn, bound>>

DoPercentChange ==
  /\ Dispatching("%c")
  /\ LET o == pull2(stack)
         s1 == push(o.stack, o.y)
     IN  IF IsZero(o.y)
         THEN stack' = s1 /\ Finish("ZeroDivisionError", n)
         ELSE /\ stack' = push(s1, RMul(RSub(RDiv(o.x, o.y), Num(1)),
                                        Num(100)))
              /\ Finish("none", n)
  /\ UNCHANGED <<mem, cmd_ln, pdict, lbl_rtn, bound>>

DoSq ==
  /\ Dispatching("sq")
  /\ LET p == pull(stack) IN stack' = push(p.stack, RMul(p.num, p.num))
  /\ Finish("none", n)
  /\ UNCHANGED <<mem, cmd_ln, pdict, lbl_rtn, bound>>

DoInv ==
  /\ Dispatching("inv")
  /\ LET p == pull(stack)
     IN  IF IsZero(p.num)
         THEN stack' = p.stack /\ Finish("ZeroDivisionError", n)
         ELSE stack' = push(p.stack, RDiv(Num(1), p.num)) /\ Finish("none", n)
  /\ UNCHANGED <<mem, cmd_ln, pdict, lbl_rtn, bound>>

DoChs ==
  /\ Dispatching("chs")
  /\ LET p == pull(stack) IN stack' = push(p.stack, RMul(p.num, Num(-1)))
  /\ Finish("none", n)
  /\ UNCHANGED <<mem, cmd_ln, pdict, lbl_rtn, bound>>

DoAbs ==
  /\ Dispatching("abs")
  /\ LET p == pull(stack)
     IN  stack' = push(p.stack, [num |-> Abs(p.num.num), den |-> p.num.den])
  /\ Finish("none", n)
  /\ UNCHANGED <<mem, cmd_ln, pdict, lbl_rtn, bound>>

DoSwap ==
  /\ Dispatching("swap")
  /\ LET o == pull2(stack) IN stack' = push(push(o.stack, o.x), o.y)
  /\ Finish("none", n)
  /\ UNCHANGED <<mem, cmd_ln, pdict, lbl_rtn, bound>>

DoDup ==
  /\ Dispatching("dup")
  /\ LET p == pull(stack) IN stack' = push(push(p.stack, p.num), p.num)
  /\ Finish("none", n)
  /\ UNCHANGED <<mem, cmd_ln, pdict, lbl_rtn, bound>>

\* clr: push(0.0) len(stack) times
RECURSIVE ClrLoop(_, _)
ClrLoop(s, i) == IF i = 0 THEN s ELSE ClrLoop(push(s, Zero), i - 1)

DoClr ==
  /\ Dispatching("clr")
  /\ stack' = ClrLoop(stack, Len(stack))
  /\ Finish("none", n)
  /\ UNCHANGED <<mem, cmd_ln, pdict, lbl_rtn, bound>>

\* a roll down that drops the top instead of moving it to the bottom
RollDownDrops(s) == PullLoop(s, 0)

\* rd: t = stack[0]; shift every value one index up; stack[len-1] = t
RollDown(s) == SetAt(PullLoop(s, 0), Len(s) - 1, At(s, 0))

\* ru: t = stack[len-1]; shift every value one index down; stack[0] = t
RollUp(s) == SetAt(PushLoop(s, Len(s) - 1), 0, At(s, Len(s) - 1))

DoRd ==
  /\ Dispatching("rd")
  /\ stack' = RollDown(stack)
  /\ Finish("none", n)
  /\ UNCHANGED <<mem, cmd_ln, pdict, lbl_rtn, bound>>

DoRu ==
  /\ Dispatching("ru")
  /\ stack' = RollUp(stack)
  /\ Finish("none", n)
  /\ UNCHANGED <<mem, cmd_ln, pdict, lbl_rtn, bound>>

\* sto: x = pull(); push(x); n += 1; mem[cmd_ln[n]] = x
DoSto ==
  /\ Dispatching("sto")
  /\ LET p == pull(stack)
     IN  /\ stack' = push(p.stack, p.num)
         /\ IF n + 1 < Len(cmd_ln)
            THEN /\ mem' = Put(mem, At(cmd_ln, n + 1), p.num)
                 /\ Finish("none", n + 1)
            ELSE mem' = mem /\ Finish("IndexError", n + 1)
  /\ UNCHANGED <<cmd_ln, pdict, lbl_rtn, bound>>

\* rcl: n += 1; push(mem[cmd_ln[n]]) if the register exists
DoRcl ==
  /\ Dispatching("rcl")
  /\ IF n + 1 < Len(cmd_ln)
     THEN /\ stack' = IF At(cmd_ln, n + 1) \in DOMAIN mem
                      THEN push(stack, mem[At(cmd_ln, n + 1)])
                      ELSE stack
          /\ Finish("none", n + 1)
     ELSE stack' = stack /\ Finish("IndexError", n + 1)
  /\ UNCHANGED <<mem, cmd_ln, pdict, lbl_rtn, bound>>

\* int(tok) for [sign] digits; any other text raises ValueError
ParseInt(tok) ==
  LET signed == Len(tok) > 0 /\ CharAt(tok, 0) \in {"+", "-"}
      body == IF signed THEN Rest(tok) ELSE tok
      ok == Len(body) > 0 /\ AllDigits(body)
      mag == IF ok THEN DigitsVal(body, 0) ELSE 0
  IN  [ok |-> ok,
       val |-> IF signed /\ CharAt(tok, 0) = "-" THEN -mag ELSE mag]

\* fix: n += 1; decimal_places = abs(int(cmd_ln[n]))
DoFix ==
  /\ Dispatching("fix")
  /\ IF n + 1 < Len(cmd_ln)
     THEN LET i == ParseInt(At(cmd_ln, n + 1))
          IN  IF i.ok
              THEN decimal_places' = Abs(i.val) /\ Pass("none", n + 1)
              ELSE decimal_places' = decimal_places
                   /\ Pass("ValueError", n + 1)
     ELSE decimal_places' = decimal_places /\ Pass("IndexError", n + 1)
  /\ calls' = calls
  /\ UNCHANGED <<stack, mem, cmd_ln, pdict, lbl_rtn, bound, kbsc, stat_regs,
                 stat_log>>

\* del d[k]
Remove(d, k) == [x \in DOMAIN d \ {k} |-> d[x]]

\* a del that deletes without looking for the register first
DoDelRaises ==
  /\ Dispatching("del")
  /\ IF n + 1 < Len(cmd_ln)
     THEN IF At(cmd_ln, n + 1) \in DOMAIN mem
          THEN mem' = Remove(mem, At(cmd_ln, n + 1)) /\ Finish("none", n + 1)
          ELSE mem' = mem /\ Finish("KeyError", n + 1)
     ELSE mem' = mem /\ Finish("IndexError", n + 1)
  /\ UNCHANGED <<stack, cmd_ln, pdict, lbl_rtn, bound>>

\* del: n += 1; del mem[cmd_ln[n]] if the register exists
DoDel ==
  /\ Dispatching("del")
  /\ IF n + 1 < Len(cmd_ln)
     THEN /\ mem' = IF At(cmd_ln, n + 1) \in DOMAIN mem
                    THEN Remove(mem, At(cmd_ln, n + 1))
                    ELSE mem
          /\ Finish("none", n + 1)
     ELSE mem' = mem /\ Finish("IndexError", n + 1)
  /\ UNCHANGED <<stack, cmd_ln, pdict, lbl_rtn, bound>>

\* scutadd: n += 1; key = cmd_ln[n]; n += 1; val = cmd_ln[n]; kbsc[key] = val
DoScutadd ==
  /\ Dispatching("scutadd")
  /\ IF ~(n + 1 < Len(cmd_ln))
     THEN kbsc' = kbsc /\ Pass("IndexError", n + 1)
     ELSE IF ~(n + 2 < Len(cmd_ln))
     THEN kbsc' = kbsc /\ Pass("IndexError", n + 2)
     ELSE /\ kbsc' = Put(kbsc, At(cmd_ln, n + 1), At(cmd_ln, n + 2))
          /\ Pass("none", n + 2)
  /\ calls' = calls
  /\ UNCHANGED <<stack, mem, cmd_ln, pdict, lbl_rtn, bound, decimal_places,
                 stat_regs, stat_log>>

\* scutdel: n += 1; del kbsc[cmd_ln[n]] if the shortcut exists
DoScutdel ==
  /\ Dispatching("scutdel")
  /\ IF n + 1 < Len(cmd_ln)
     THEN /\ kbsc' = IF At(cmd_ln, n + 1) \in DOMAIN kbsc
                     THEN Remove(kbsc, At(cmd_ln, n + 1))
                     ELSE kbsc
          /\ Pass("none", n + 1)
     ELSE kbsc' = kbsc /\ Pass("IndexError", n + 1)
  /\ calls' = calls
  /\ UNCHANGED <<stack, mem, cmd_ln, pdict, lbl_rtn, bound, decimal_places,
                 stat_regs, stat_log>>

\* every keyword of the elif chain
Keywords ==
  {"+", "-", "*", "/", "^", "xroot", "r>p", "p>r", "%", "%c", "cnr", "pnr",
   "gcd", "sqrt", "sq", "e", "ln", "tx", "log", "inv", "chs", "abs", "ceil",
   "floor", "!", "gamma", "frac", "int", "rnd", "ratio", "sin", "cos", "tan",
   "asin", "acos", "atan", "sinh", "cosh", "tanh", "asinh", "acosh", "atanh",
   "atan2", "hyp", "rad", "deg", "in", "cm", "gal", "ltr", "lbs", "kg",
   "c>f", "f>c", "dh", "hms", "pi", "tau", "swap", "dup", "clr", "rd", "ru",
   "cs", "ptr", "rand", "fix", "show", "sto", "rcl", "del", "mem", "scut",
   "scutadd", "scutdel", "clrg", "cls", "lbl", "exc", "gsb", "gto", "rtn",
   "pse", "nop", "prog", "edit", "version", "help", "stat"} \cup Tests

\* no keyword matched: a register of that name, or an invalid operator
DoOther ==
  /\ AtToken
  /\ ~IsNumeric(Token)
  /\ Token \notin Keywords
  /\ stack' = IF At(cmd_ln, n) \in DOMAIN mem
              THEN push(stack, mem[At(cmd_ln, n)])
              ELSE stack
  /\ Finish("none", n)
  /\ UNCHANGED <<mem, cmd_ln, pdict, lbl_rtn, bound>>

DoNop ==
  /\ Dispatching("nop")
  /\ Finish("none", n)
  /\ UNCHANGED <<stack, mem, cmd_ln, pdict, lbl_rtn, bound>>

\* ---------------------------------------------------- the program engine
\* lbl: n += 1, so that the auto-advance steps over the label's name
DoLbl ==
  /\ Dispatching("lbl")
  /\ Finish("none", n + 1)
  /\ UNCHANGED <<stack, mem, cmd_ln, pdict, lbl_rtn, bound>>

\* the tokens t of a listing with t.lower() == "lbl"
LblSpellings == {"lbl", "lbL", "lBl", "lBL", "Lbl", "LbL", "LBl", "LBL"}

\* a label scan that files every name in lower case
RECURSIVE LabelScanLower(_, _, _)
LabelScanLower(listing, x, pd) ==
  LET lbls == {i \in x..(Len(listing) - 1) : At(listing, i) \in LblSpellings}
  IN  IF lbls = {} THEN [pdict |-> pd, exc |-> "none"]
      ELSE LET i == CHOOSE a \in lbls : \A b \in lbls : a <= b
           IN  IF i + 1 < Len(listing)
               THEN LabelScanLower(listing, i + 2,
                    Put(pd, Lower(At(listing, i + 1)), i + 1))
               ELSE [pdict |-> pd, exc |-> "IndexError"]

\* a label scan in which the first occurrence of a name wins
RECURSIVE LabelScanFirst(_, _, _)
LabelScanFirst(listing, x, pd) ==
  LET lbls == {i \in x..(Len(listing) - 1) : At(listing, i) \in LblSpellings}
  IN  IF lbls = {} THEN [pdict |-> pd, exc |-> "none"]
      ELSE LET i == CHOOSE a \in lbls : \A b \in lbls : a <= b
           IN  IF i + 1 < Len(listing)
               THEN LabelScanFirst(listing, i + 2,
                    IF At(listing, i + 1) \in DOMAIN pd THEN pd
                    ELSE Put(pd, At(listing, i + 1), i + 1))
               ELSE [pdict |-> pd, exc |-> "IndexError"]

\* The label scan of exc from index x with the map pd built so far: the
\* token after each "lbl" is a name, mapped to its own index. A "lbl" that
\* ends the listing raises IndexError.
RECURSIVE LabelScan(_, _, _)
LabelScan(listing, x, pd) ==
  LET lbls == {i \in x..(Len(listing) - 1) : At(listing, i) \in LblSpellings}
  IN  IF lbls = {} THEN [pdict |-> pd, exc |-> "none"]
      ELSE LET i == CHOOSE a \in lbls : \A b \in lbls : a <= b
           IN  IF i + 1 < Len(listing)
               THEN LabelScan(listing, i + 2,
                    Put(pd, At(listing, i + 1), i + 1))
               ELSE [pdict |-> pd, exc |-> "IndexError"]

ExcKeepsReturns(r) == r

\* the return-address stack a successful exc leaves: lbl_rtn = []
ExcReturns(r) == << >>

\* an exc that runs the listing and then the rest of the input line
ExcSequenceThenRest(line, n0, listing) ==
  listing \o SubSeq(line, n0 + 3, Len(line))

\* the active sequence after a successful exc: cmd_ln = prog_listing
ExcSequence(line, n0, listing) == listing

\* exc: n += 1; build pdict; if cmd_ln[n] is a label, run the listing from it
DoExc ==
  /\ Dispatching("exc")
  /\ LET sc == LabelScan(prog_listing, 0, EmptyMap)
     IN  /\ pdict' = sc.pdict
         /\ IF sc.exc # "none"
            THEN /\ UNCHANGED <<cmd_ln, lbl_rtn>>
                 /\ bound' = bound \cup {"pdict"}
                 /\ Finish(sc.exc, n + 1)
            ELSE IF ~(n + 1 < Len(cmd_ln))
            THEN /\ UNCHANGED <<cmd_ln, lbl_rtn>>
                 /\ bound' = bound \cup {"pdict"}
                 /\ Finish("IndexError", n + 1)
            ELSE IF At(cmd_ln, n + 1) \in DOMAIN sc.pdict
            THEN /\ lbl_rtn' = ExcReturns(lbl_rtn)
                 /\ cmd_ln' = ExcSequence(cmd_ln, n, prog_listing)
                 /\ bound' = bound \cup {"pdict", "lbl_rtn"}
                 /\ calls' = << >>
                 /\ Step("none", sc.pdict[At(cmd_ln, n + 1)])
            ELSE /\ UNCHANGED <<cmd_ln, lbl_rtn>>
                 /\ bound' = bound \cup {"pdict"}
                 /\ Finish("none", n + 1)
  /\ UNCHANGED <<stack, mem>>

\* the address gsb saves for the call at cursor n0
GsbReturnAfter(n0) == n0 + 2

GsbReturn(n0) == n0 + 1

\* gsb: n += 1; lbl_rtn.append(n); n = pdict[cmd_ln[n]]
DoGsb ==
  /\ Dispatching("gsb")
  /\ IF Unbound("lbl_rtn")
     THEN lbl_rtn' = lbl_rtn /\ Finish("UnboundLocalError", n + 1)
     ELSE /\ lbl_rtn' = Append(lbl_rtn, GsbReturn(n))
          /\ IF Unbound("pdict") THEN Finish("UnboundLocalError", n + 1)
             ELSE IF ~(n + 1 < Len(cmd_ln)) THEN Finish("IndexError", n + 1)
             ELSE IF At(cmd_ln, n + 1) \notin DOMAIN pdict
             THEN Finish("KeyError", n + 1)
             ELSE /\ calls' = Append(calls,
                                     [at |-> n, depth |-> Len(lbl_rtn)])
                  /\ Step("none", pdict[At(cmd_ln, n + 1)])
  /\ UNCHANGED <<stack, mem, cmd_ln, pdict, bound>>

\* a gto that saves a return address as gsb does
DoGtoPushes ==
  /\ Dispatching("gto")
  /\ IF Unbound("pdict")
     THEN lbl_rtn' = lbl_rtn /\ Finish("UnboundLocalError", n + 1)
     ELSE IF ~(n + 1 < Len(cmd_ln))
     THEN lbl_rtn' = lbl_rtn /\ Finish("IndexError", n + 1)
     ELSE IF At(cmd_ln, n + 1) \notin DOMAIN pdict
     THEN lbl_rtn' = lbl_rtn /\ Finish("KeyError", n + 1)
     ELSE /\ lbl_rtn' = Append(lbl_rtn, n + 1)
          /\ Finish("none", pdict[At(cmd_ln, n + 1)])
  /\ UNCHANGED <<stack, mem, cmd_ln, pdict, bound>>

\* gto: n += 1; n = pdict[cmd_ln[n]]
DoGto ==
  /\ Dispatching("gto")
  /\ IF Unbound("pdict") THEN Finish("UnboundLocalError", n + 1)
     ELSE IF ~(n + 1 < Len(cmd_ln)) THEN Finish("IndexError", n + 1)
     ELSE IF At(cmd_ln, n + 1) \notin DOMAIN pdict
     THEN Finish("KeyError", n + 1)
     ELSE Finish("none", pdict[At(cmd_ln, n + 1)])
  /\ UNCHANGED <<stack, mem, cmd_ln, pdict, lbl_rtn, bound>>

\* the cursor rtn resumes at (before the auto-advance) for return stack r
RtnTargetPlus(r) == Last(r) + 1

RtnTarget(r) == Last(r)

\* a rtn that leaves the active sequence as it is
RtnEndStays(seq) == seq

\* the active sequence after a rtn with no return address: two no-ops
RtnEnd(seq) == <<"nop", "nop">>

\* rtn: pop a return address, or end the program
DoRtn ==
  /\ Dispatching("rtn")
  /\ IF Unbound("lbl_rtn")
     THEN UNCHANGED <<cmd_ln, lbl_rtn>> /\ Finish("UnboundLocalError", n)
     ELSE IF Len(lbl_rtn) > 0
     THEN /\ lbl_rtn' = Front(lbl_rtn)
          /\ cmd_ln' = cmd_ln
          /\ calls' = IF calls = << >> THEN calls ELSE Front(calls)
          /\ Step("none", RtnTarget(lbl_rtn))
     ELSE /\ lbl_rtn' = lbl_rtn
          /\ cmd_ln' = RtnEnd(cmd_ln)
          /\ calls' = << >>
          /\ Step("none", 0)
  /\ UNCHANGED <<stack, mem, pdict, bound>>

\* ---------------------------------------------------------------- tests
\* the condition under which the handler of test t adds 2 to the cursor
Skips(t, x, y) ==
  CASE t = "x=0?" -> ~IsZero(x)
    [] t = "x!=0?" -> IsZero(x)
    [] t = "x>0?" -> ~RLt(Zero, x)
    [] t = "x<0?" -> ~RLt(x, Zero)
    [] t = "x>=0?" -> ~RLe(Zero, x)
    [] t = "x=y?" -> x # y
    [] t = "x!=y?" -> x = y
    [] t = "x>y?" -> ~RLt(y, x)
    [] t = "x<y?" -> ~RLt(x, y)
    [] t = "x>=y?" -> ~RLe(y, x)
    [] t = "x<=y?" -> ~RLe(x, y)

\* the cursor a test leaves (before the auto-advance) when it skips or not
TestCursorOne(n0, skip) == IF skip THEN n0 + 1 ELSE n0

TestCursor(n0, skip) == IF skip THEN n0 + 2 ELSE n0

\* the stack a test of x against 0 leaves: x = pull(); push(x)
Test0StackDrop(s) == pull(s).stack

Test0Stack(s) == LET p == pull(s) IN push(p.stack, p.num)

\* the stack a test of x against y leaves: pull, pull, push(y), push(x)
TestYStack(s) == LET o == pull2(s) IN push(push(o.stack, o.y), o.x)

\* x=0? x!=0? x>0? x<0? x>=0?
DoTest0 ==
  /\ \E t \in Tests0 \ {"x<=0?"} :
       /\ Dispatching(t)
       /\ stack' = Test0Stack(stack)
       /\ Finish("none", TestCursor(n, Skips(t, pull(stack).num, Zero)))
  /\ UNCHANGED <<mem, cmd_ln, pdict, lbl_rtn, bound>>

\* x<=0?: x = pull(); push() -- push without its argument raises TypeError,
\* which no except clause catches
DoTestLe0 ==
  /\ Dispatching("x<=0?")
  /\ stack' = pull(stack).stack
  /\ Finish("TypeError", n)
  /\ UNCHANGED <<mem, cmd_ln, pdict, lbl_rtn, bound>>

\* x=y? x!=y? x>y? x<y? x>=y? x<=y?
DoTestY ==
  /\ \E t \in TestsY :
       /\ Dispatching(t)
       /\ stack' = TestYStack(stack)
       /\ LET o == pull2(stack)
          IN  Finish("none", TestCursor(n, Skips(t, o.x, o.y)))
  /\ UNCHANGED <<mem, cmd_ln, pdict, lbl_rtn, bound>>

\* ----------------------------------------------------------- statistics
\* stat_dict: the user's names for the accumulator r
StatDict(r) ==
  ("n" :> r.Sn) @@ ("Ex" :> r.Sx) @@ ("Ey" :> r.Sy) @@ ("Ex2" :> r.Sx2) @@
  ("Ey2" :> r.Sy2) @@ ("Exy" :> r.Sxy) @@ ("x" :> r.Mx) @@ ("y" :> r.My) @@
  ("r" :> r.CCr) @@ ("a" :> r.Sa) @@ ("b" :> r.YIb)

\* the six sums with the pair taken the other way round, (y, x)
StatAddSwapped(r, x, y, k) ==
  [r EXCEPT !.Sn = RAdd(r.Sn, Num(k)),
            !.Sx = RAdd(r.Sx, RMul(Num(k), y)),
            !.Sy = RAdd(r.Sy, RMul(Num(k), x)),
            !.Sx2 = RAdd(r.Sx2, RMul(Num(k), RMul(y, y))),
            !.Sy2 = RAdd(r.Sy2, RMul(Num(k), RMul(x, x))),
            !.Sxy = RAdd(r.Sxy, RMul(Num(k), RMul(x, y)))]

\* the six sums with the pair (x, y) added k times (k = -1: taken out)
StatAdd(r, x, y, k) ==
  [r EXCEPT !.Sn = RAdd(r.Sn, Num(k)),
            !.Sx = RAdd(r.Sx, RMul(Num(k), x)),
            !.Sy = RAdd(r.Sy, RMul(Num(k), y)),
            !.Sx2 = RAdd(r.Sx2, RMul(Num(k), RMul(x, x))),
            !.Sy2 = RAdd(r.Sy2, RMul(Num(k), RMul(y, y))),
            !.Sxy = RAdd(r.Sxy, RMul(Num(k), RMul(x, y)))]

\* an estimate that leaves the intercept out
EstimateSlopeOnly(r, x) == RMul(r.Sa, x)

\* est: Sa * x + YIb
Estimate(r, x) == RAdd(RMul(r.Sa, x), r.YIb)

\* the history of the sums after one more entry
Logged1(op, x, y) ==
  [stat_log EXCEPT !.ops = Append(@, [op |-> op, x |-> x, y |-> y])]

\* stat: as the last token it adds the pair (x, y); otherwise the token
\* after it is its modifier. The derived values are recomputed before the
\* modifier acts, and stat_dict is the accumulator as it was on entry.
\* a stat that adds the pair whatever follows it
StatIsLastAlways(seq, n0) == TRUE

\* if there's nothing after 'stat' then add x & y to the stat registers
StatIsLast(seq, n0) == n0 + 1 = Len(seq)

DoStat ==
  /\ Dispatching("stat")
  /\ LET o == pull2(stack)
         s0 == push(push(o.stack, o.y), o.x)
         stat_dict == StatDict(stat_regs)
         last == StatIsLast(cmd_ln, n)
         n1 == IF last THEN n ELSE n + 1
         r1 == IF last THEN StatAdd(stat_regs, o.x, o.y, 1) ELSE stat_regs
         m == At(cmd_ln, n1)
     IN  IF NonDegenerate(r1) /\ RLt(SqrtArg(r1), Zero)
         THEN /\ stat_regs' = RecomputeUpToSqrt(r1)
              /\ stat_log' = IF last THEN Logged1("add", o.x, o.y)
                             ELSE stat_log
              /\ stack' = s0
              /\ mem' = mem
              /\ Pass("ValueError", n1)
         ELSE LET r2 == IF NonDegenerate(r1) THEN Recompute(r1) ELSE r1
              IN  /\ stat_regs' = IF m = "clear" THEN StatZero
                                  ELSE IF m = "undo"
                                  THEN StatAdd(r2, o.x, o.y, -1)
                                  ELSE r2
                  /\ stat_log' = IF last THEN Logged1("add", o.x, o.y)
                                 ELSE IF m = "undo"
                                 THEN Logged1("undo", o.x, o.y)
                                 ELSE IF m = "clear"
                                 THEN Logged1("clear", Zero, Zero)
                                 ELSE stat_log
                  /\ mem' = IF m = "store" THEN stat_dict @@ mem ELSE mem
                  /\ stack' = IF m \in {"clear", "undo", "store"} THEN s0
                              ELSE IF m = "est"
                              THEN push(s0, Estimate(r2, o.x))
                              ELSE IF m \in DOMAIN stat_dict
                              THEN push(s0, stat_dict[m])
                              ELSE s0
                  /\ Pass("none", n1)
  /\ calls' = calls
  /\ UNCHANGED <<cmd_ln, pdict, lbl_rtn, bound, kbsc, decimal_places>>

\* ------------------------------------------------------- specification
Next ==
  \/ ReadLine
  \/ EndOfLine
  \/ DoNumber
  \/ DoAdd
  \/ DoSub
  \/ DoMul
  \/ DoDiv
  \/ DoPow
  \/ DoPercent
  \/ DoPercentChange
  \/ DoSq
  \/ DoInv
  \/ DoChs
  \/ DoAbs
  \/ DoSwap
  \/ DoDup
  \/ DoClr
  \/ DoRd
  \/ DoRu
  \/ DoSto
  \/ DoRcl
  \/ DoFix
  \/ DoDel
  \/ DoScutadd
  \/ DoScutdel
  \/ DoOther
  \/ DoNop
  \/ DoLbl
  \/ DoExc
  \/ DoGsb
  \/ DoGto
  \/ DoRtn
  \/ DoTest0
  \/ DoTestLe0
  \/ DoTestY
  \/ DoStat

Spec == Init /\ [][Next]_vars

\* every token the dispatcher meets is one whose handler is modelled
ModelCovers ==
  (AtToken /\ ~IsNumeric(Token) /\ Token \in Keywords)
    => Token \in PlainOps \cup ArgOps

TypeOK ==
  /\ pc \in {"prompt", "loop", "exited", "crashed"}
  /\ n \in Nat
  /\ \A i \in 1..Len(stack) : stack[i].den > 0
  /\ \A i \in 1..Len(lbl_rtn) : lbl_rtn[i] \in Nat
  /\ bound \subseteq {"pdict", "lbl_rtn"}
  /\ decimal_places \in Nat
  /\ \A k \in DOMAIN kbsc : kbsc[k] \in STRING
  /\ \A k \in DOMAIN stat_regs : stat_regs[k].den > 0
  /\ \A k \in DOMAIN mem : mem[k].den > 0

\* ------------------------------------------------ statistics sessions
\* the sums of the pairs <<x, y>> of ps, added to a cleared accumulator
RECURSIVE SumsOf(_)
SumsOf(ps) ==
  IF Len(ps) = 0 THEN StatZero
  ELSE StatAdd(SumsOf(Front(ps)), Num(Last(ps)[1]), Num(Last(ps)[2]), 1)

\* the accumulators a .mem file may restore: cleared, two pairs, three pairs
StatSeeds ==
  {SumsOf(<< >>), SumsOf(<<<<1, 2>>, <<3, 4>>>>),
   SumsOf(<<<<1, 2>>, <<3, 4>>, <<5, 7>>>>)}

\* the lines of a statistics session: y x stat adds the pair (x, y) and
\* y x stat undo takes it out
StatLines ==
  {<<"2", "1", "stat">>, <<"4", "3", "stat">>, <<"4", "3", "stat", "undo">>,
   <<"7", "5", "stat", "undo">>, <<"stat", "clear">>, <<"stat", "est">>,
   <<"2", "1", "stat", "7">>, <<"exc", "S">>}
    \cup {<<"stat", q>> : q \in {"x", "y", "r", "a", "b"}}

InitStatSession ==
  /\ stack = initstack(stack_size)
  /\ mem = InitMem
  /\ kbsc = DefaultKbsc
  /\ prog_listing = Listing
  /\ cmd_ln = << >>
  /\ n = 0
  /\ pdict = EmptyMap
  /\ lbl_rtn = << >>
  /\ bound = {}
  /\ pc = "prompt"
  /\ err = "none"
  /\ decimal_places = 4
  /\ stat_regs \in {InitStat(s) : s \in StatSeeds}
  /\ lineNo = 0
  /\ stack0 = stack
  /\ stat_log = [start |-> stat_regs, ops |-> << >>]
  /\ calls = << >>
  /\ prev = [tok |-> "", n |-> 0, stack |-> stack, rtn |-> << >>,
             seq |-> << >>, calls |-> << >>, arg |-> Zero, ret |-> Zero]

\* a session of up to MaxStatLines lines drawn from StatLines
ReadStatLine == ReadLineFrom(StatLines, MaxStatLines)

NextStat ==
  \/ ReadStatLine
  \/ EndOfLine
  \/ DoNumber
  \/ DoStat
  \/ DoExc
  \/ DoLbl

SpecStat == InitStatSession /\ [][NextStat]_vars

\* lines that run the programs branching to the label the listing has twice
ProgLines ==
  {<<"exc", b>> \o t : b \in {"K", "N", "O"}, t \in {<< >>, <<"7">>}}

\* a session of up to MaxProgLines lines drawn from ProgLines
ReadProgLine == ReadLineFrom(ProgLines, MaxProgLines)

NextProg ==
  \/ ReadProgLine
  \/ EndOfLine
  \/ DoNumber
  \/ DoNop
  \/ DoExc
  \/ DoGsb
  \/ DoGto
  \/ DoRtn

SpecProg == Init /\ [][NextProg]_vars

\* ------------------------------------------- push and pull on their own
\* push and pull applied once to any stack of depth 1..MaxDepth
HarnessValues == {Num(i) : i \in 0..(MaxInit + 1)}

HarnessStacks == UNION {[1..d -> HarnessValues] : d \in 1..MaxDepth}

PushArgs == {Zero, Num(MaxInit + 2)}

InitFn ==
  /\ stack \in HarnessStacks
  /\ mem = InitMem
  /\ kbsc = DefaultKbsc
  /\ prog_listing = Listing
  /\ cmd_ln = << >>
  /\ n = 0
  /\ pdict = EmptyMap
  /\ lbl_rtn = << >>
  /\ bound = {}
  /\ pc = "fn"
  /\ err = "none"
  /\ decimal_places = 4
  /\ stat_regs = InitStat(StatZero)
  /\ lineNo = 0
  /\ stack0 = stack
  /\ stat_log = [start |-> stat_regs, ops |-> << >>]
  /\ calls = << >>
  /\ prev = [tok |-> "", n |-> 0, stack |-> stack, rtn |-> << >>,
             seq |-> << >>, calls |-> << >>, arg |-> Zero, ret |-> Zero]

\* what a harness step leaves: the stack s, and in prev the call made
Applied(call, s, v, r) ==
  /\ pc = "fn"
  /\ pc' = "done"
  /\ stack' = s
  /\ prev' = [tok |-> call, n |-> 0, stack |-> stack, rtn |-> << >>,
              seq |-> << >>, calls |-> << >>, arg |-> v, ret |-> r]
  /\ UNCHANGED <<mem, kbsc, prog_listing, cmd_ln, n, pdict, lbl_rtn, bound,
                 err, decimal_places, stat_regs, lineNo, stack0, stat_log,
                 calls>>

\* push(v)
ApplyPush == \E v \in PushArgs : Applied("push", push(stack, v), v, Zero)

\* pull()
ApplyPull ==
  LET p == pull(stack) IN Applied("pull", p.stack, Zero, p.num)

\* push(v) immediately followed by pull()
ApplyPushPull ==
  \E v \in PushArgs :
    LET p == pull(push(stack, v)) IN Applied("push;pull", p.stack, v, p.num)

\* v = pull() immediately followed by push(v)
ApplyPullPush ==
  LET p == pull(stack)
  IN  Applied("pull;push", push(p.stack, p.num), p.num, p.num)

\* x = pull(); y = pull(); push(y); push(x), as the tests and stat do
ApplyPull2Push2 ==
  Applied("pull;pull;push;push", TestYStack(stack), Zero, Zero)

\* rd applied k times
RECURSIVE RollDownTimes(_, _)
RollDownTimes(s, k) == IF k = 0 THEN s ELSE RollDownTimes(RollDown(s), k - 1)

\* the rolls of rd and ru, alone, one after the other, and rd len(stack) times
ApplyRoll ==
  \/ Applied("rd", RollDown(stack), Zero, Zero)
  \/ Applied("ru", RollUp(stack), Zero, Zero)
  \/ Applied("rd;ru", RollUp(RollDown(stack)), Zero, Zero)
  \/ Applied("ru;rd", RollDown(RollUp(stack)), Zero, Zero)
  \/ Applied("rd*N", RollDownTimes(stack, Len(stack)), Zero, Zero)

NextFn ==
  \/ ApplyPush
  \/ ApplyPull
  \/ ApplyPushPull
  \/ ApplyPullPush
  \/ ApplyPull2Push2
  \/ ApplyRoll

SpecFn == InitFn /\ [][NextFn]_vars

\* =============================================================== claims
\* the step recorded in prev handled token t and completed without exception
Did(t) == prev.tok = t /\ err = "none"

\* the stack slots named by calculator convention, before the last step
PrevX == At(prev.stack, 0)

PrevY == At(prev.stack, 1)

\* what each test asks, read off its name
TestHolds(t, x, y) ==
  CASE t = "x=0?" -> x.num = 0
    [] t = "x!=0?" -> x.num # 0
    [] t = "x>0?" -> x.num > 0
    [] t = "x<0?" -> x.num < 0
    [] t = "x>=0?" -> x.num >= 0
    [] t = "x<=0?" -> x.num <= 0
    [] t = "x=y?" -> x = y
    [] t = "x!=y?" -> x # y
    [] t = "x>y?" -> RLt(y, x)
    [] t = "x<y?" -> RLt(x, y)
    [] t = "x>=y?" -> RLe(y, x)
    [] t = "x<=y?" -> RLe(x, y)

\* name is the name of a label of listing: it follows a LBL marker
IsLabel(listing, name) ==
  \E i \in 0..(Len(listing) - 2) :
    Lower(At(listing, i)) = "lbl" /\ At(listing, i + 1) = name

\* the history starts with the tokens of head
LineStarts(head) ==
  Len(prev.seq) >= Len(head) /\ SubSeq(prev.seq, 1, Len(head)) = head

\* C1: in every reachable state the stack has exactly N slots, the length
\* initstack gave it at start-up (4), whatever token was dispatched.
C1_StackLength ==
  Len(stack) = Len(initstack(stack_size)) /\ Len(stack) = stack_size

C1_Witness ==
  /\ Did("chs")
  /\ prev.n > 0
  /\ stack # prev.stack
  /\ Len(stack) = stack_size

\* C2: push(V) on [s0, ..., s(N-1)] yields [V, s0, ..., s(N-2)].
C2_Push ==
  prev.tok = "push" => stack = <<prev.arg>> \o Front(prev.stack)

C2_Witness ==
  /\ prev.tok = "push"
  /\ Len(prev.stack) = stack_size
  /\ PrevX # PrevY
  /\ prev.arg # PrevX
  /\ Last(prev.stack) # At(prev.stack, 2)

\* C3: pull() on [s0, ..., s(N-1)] returns s0 and leaves
\* [s1, ..., s(N-1), s(N-1)]: the last slot keeps its value.
C3_Pull ==
  prev.tok = "pull" =>
    /\ prev.ret = PrevX
    /\ stack = Rest(prev.stack) \o <<Last(prev.stack)>>

C3_Witness ==
  /\ prev.tok = "pull"
  /\ Len(prev.stack) = stack_size
  /\ Last(prev.stack) # Zero
  /\ Last(prev.stack) # At(prev.stack, 2)

\* C4 as stated: on a stack of depth >= 2, push(V) immediately followed by
\* pull() returns V and leaves every slot, the last one included, as it was
\* before the push.
C4_RoundTripRestoresAll ==
  (prev.tok = "push;pull" /\ Len(prev.stack) >= 2) =>
    (prev.ret = prev.arg /\ stack = prev.stack)

\* C4 amended: push(V) immediately followed by pull() returns V and leaves
\* every slot but the last as it was; the last slot holds a copy of the
\* slot above it, its own old value having been discarded by the push.
C4_RoundTrip ==
  (prev.tok = "push;pull" /\ Len(prev.stack) >= 2) =>
    /\ prev.ret = prev.arg
    /\ Len(stack) = Len(prev.stack)
    /\ Front(stack) = Front(prev.stack)
    /\ Last(stack) = At(prev.stack, Len(prev.stack) - 2)

C4_Witness ==
  /\ prev.tok = "push;pull"
  /\ Len(prev.stack) = stack_size
  /\ Last(prev.stack) # At(prev.stack, Len(prev.stack) - 2)
  /\ Last(stack) # Last(prev.stack)

\* C5: each of the 12 conditional tests leaves the whole stack as it was,
\* whether its predicate is true or false.
C5_TestsNonConsuming ==
  prev.tok \in Tests => stack = prev.stack

\* C6: after a test dispatched at cursor n, the next token dispatched is the
\* one at n+1 if the predicate is true and the one at n+3 if it is false.
C6_TestCursor ==
  prev.tok \in Tests =>
    /\ pc = "loop"
    /\ cmd_ln = prev.seq
    /\ n = IF TestHolds(prev.tok, PrevX, PrevY) THEN prev.n + 1
           ELSE prev.n + 3

\* The cursor rule of C6 does hold for the other eleven tests.
TestCursorExceptLe0 ==
  (prev.tok \in Tests \ {"x<=0?"}) =>
    /\ pc = "loop"
    /\ cmd_ln = prev.seq
    /\ stack = prev.stack
    /\ n = IF TestHolds(prev.tok, PrevX, PrevY) THEN prev.n + 1
           ELSE prev.n + 3

\* the test of the line "5 x>0? a b <rest>" (or "-5 ...") has just run
AfterTestOf(five) ==
  /\ LineStarts(<<five, "x>0?">>)
  /\ Len(prev.seq) >= 5
  /\ prev.tok = "x>0?"
  /\ prev.n = 1

\* C7 as stated: on the line "5 x>0? a b <rest>", because 5 > 0 the next
\* token executed after the test is the first token of <rest>.
C7_TrueSkipsTwo == AfterTestOf("5") => (AtToken /\ n = 4)

\* C7 amended: on the line "5 x>0? a b <rest>", because 5 > 0 the next
\* token executed after the test is a; were the test false ("-5 x>0? a b
\* <rest>"), a and b would be skipped and the first token of <rest> would
\* be the next one executed.
C7_TrueRunsNext ==
  /\ AfterTestOf("5") => (AtToken /\ cmd_ln = prev.seq /\ n = 2)
  /\ AfterTestOf("-5") => (AtToken /\ cmd_ln = prev.seq /\ n = 4)

C7_Witness == AfterTestOf("5") /\ PrevX = Num(5)

\* C8: for a stack [x, y, z, t], "%" leaves [(x/100)*y, y, z, t] and "%c"
\* (y # 0) leaves [(x/y - 1)*100, y, z, t]; x = 10, y = 200 gives 20 in x
\* with 200 still in y.
C8_Percent ==
  LET x == PrevX
      y == PrevY
      below == SubSeq(prev.stack, 2, Len(prev.stack))
  IN  /\ Did("%") =>
           stack = <<RMul(RDiv(x, Num(100)), y)>> \o below
      /\ (Did("%c") /\ ~IsZero(y)) =>
           stack = <<RMul(RSub(RDiv(x, y), Num(1)), Num(100))>> \o below
      /\ (Did("%") /\ x = Num(10) /\ y = Num(200)) =>
           (At(stack, 0) = Num(20) /\ At(stack, 1) = Num(200))
      /\ (Did("%c") /\ x = Num(10) /\ y = Num(200)) =>
           (At(stack, 0) = Num(-95) /\ At(stack, 1) = Num(200))

C8_Witness ==
  /\ Did("%")
  /\ PrevX = Num(10)
  /\ PrevY = Num(200)
  /\ At(stack, 0) = Num(20)
  /\ At(prev.stack, 2) # At(prev.stack, 3)

\* a RTN has just run in the listing while a GSB to a defined label was
\* pending: it is that subroutine's RTN
SubroutineReturned ==
  /\ Did("rtn")
  /\ prev.seq = prog_listing
  /\ prev.calls # << >>

\* C9: in a running program, a GSB to a defined label followed by the
\* subroutine's RTN resumes at the token right after that GSB's label
\* argument, with the return-address stack back to the depth it had before
\* the GSB, at every depth of nesting.
C9_GsbRtnRoundTrip ==
  SubroutineReturned =>
    /\ cmd_ln = prog_listing
    /\ n = Last(prev.calls).at + 2
    /\ Len(lbl_rtn) = Last(prev.calls).depth

\* The round trip of C9 does hold as long as no GSB to an undefined label
\* has left its address on the return-address stack.
GsbRtnRoundTripWithoutFailedGsb ==
  (SubroutineReturned /\ Len(prev.rtn) = Len(prev.calls)) =>
    /\ cmd_ln = prog_listing
    /\ n = Last(prev.calls).at + 2
    /\ Len(lbl_rtn) = Last(prev.calls).depth

NestedReturn ==
  /\ SubroutineReturned
  /\ Len(prev.calls) = 2
  /\ Len(prev.rtn) = 2
  /\ n = Last(prev.calls).at + 2

\* C10: EXC with a label of the program listing makes the listing the
\* active sequence, empties the return-address stack (also from inside a
\* running program with pending returns), and leaves the cursor on the
\* token right after that label's name.
C10_Exc ==
  (/\ prev.tok = "exc"
   /\ prev.n + 1 < Len(prev.seq)
   /\ IsLabel(prog_listing, At(prev.seq, prev.n + 1))) =>
    /\ err = "none"
    /\ pc = "loop"
    /\ cmd_ln = prog_listing
    /\ lbl_rtn = << >>
    /\ n >= 2
    /\ At(cmd_ln, n - 1) = At(prev.seq, prev.n + 1)
    /\ Lower(At(cmd_ln, n - 2)) = "lbl"

C10_Witness ==
  /\ Did("exc")
  /\ prev.rtn # << >>
  /\ prev.seq = prog_listing
  /\ lbl_rtn = << >>
  /\ cmd_ln = prog_listing

\* C11: EXC with a label that the program listing does not define does not
\* transition: the active token sequence, the stack and the return-address
\* stack stay as they are and the next token dispatched is the one after
\* the label argument.
C11_ExcUndefined ==
  [][(/\ Dispatching("exc")
      /\ n + 1 < Len(cmd_ln)
      /\ ~IsLabel(prog_listing, At(cmd_ln, n + 1))) =>
       /\ cmd_ln' = cmd_ln
       /\ stack' = stack
       /\ lbl_rtn' = lbl_rtn
       /\ ("lbl_rtn" \in bound') = ("lbl_rtn" \in bound)
       /\ err' = "none"
       /\ pc' = "loop"
       /\ n' = n + 2]_vars

C11_Witness ==
  /\ Did("exc")
  /\ cmd_ln = prev.seq
  /\ cmd_ln # prog_listing
  /\ ~IsLabel(prog_listing, At(prev.seq, prev.n + 1))
  /\ n = prev.n + 2
  /\ n < Len(cmd_ln)

\* C12: a RTN in a running program with an empty return-address stack ends
\* the program: the RTN leaves the stack as it is, no further token of the
\* listing is dispatched (the only token still handled is one no-op of the
\* two-no-op sequence), and control goes back to the prompt.
C12_RtnEndsProgram ==
  [][/\ (/\ Dispatching("rtn")
         /\ cmd_ln = prog_listing
         /\ ~Unbound("lbl_rtn")
         /\ lbl_rtn = << >>) =>
          /\ stack' = stack
          /\ cmd_ln' = <<"nop", "nop">>
          /\ cmd_ln' # prog_listing
          /\ n' = 1
          /\ pc' = "loop"
     /\ (pc = "loop" /\ cmd_ln = <<"nop", "nop">>) =>
          /\ stack' = stack
          /\ cmd_ln' = cmd_ln
          /\ \/ n = 1 /\ n' = 2 /\ pc' = "loop"
             \/ n = 2 /\ pc' = "prompt"]_vars

C12_Witness ==
  /\ pc = "prompt"
  /\ lineNo = 1
  /\ cmd_ln = <<"nop", "nop">>
  /\ "lbl_rtn" \in bound
  /\ lbl_rtn = << >>

\* the process has ended on an exception no except clause catches
Crashed == pc = "crashed"

\* C13: a GTO or GSB dispatched before any EXC has built a label map is
\* reported as an error of that line and does not end the process: the
\* interpreter is back at the prompt.
C13_BranchBeforeExc ==
  (prev.tok \in {"gto", "gsb"} /\ Unbound("pdict") /\ Unbound("lbl_rtn")) =>
    /\ ~Crashed
    /\ err # "none"

\* C14: no failure ends the process; a line that does not start with
\* quit/exit/close never does.
C14_NoFailureTerminates == ~Crashed

\* the operand the last step found to be zero, if it divides by it
DividedByZero ==
  \/ prev.tok \in {"/", "inv"} /\ IsZero(PrevX)
  \/ prev.tok = "%c" /\ IsZero(PrevY)

\* C15: a token that raises division by zero (or overflow) ends the line:
\* the loop is left for the prompt with the rest of the active sequence
\* not dispatched, and the process goes on.
C15_DomainErrorLineFatal ==
  /\ DividedByZero => err = "ZeroDivisionError"
  /\ err \in {"ZeroDivisionError", "OverflowError"} =>
       /\ pc = "prompt"
       /\ cmd_ln = prev.seq
       /\ n = 0

C15_Witness ==
  /\ err = "ZeroDivisionError"
  /\ prev.tok = "/"
  /\ prev.n + 1 < Len(prev.seq)
  /\ pc = "prompt"

\* C16: a token classified as numeric that does not parse (1x, -abc) ends
\* the line: the stack is as the token before it left it, and the
\* interpreter is back at the prompt.
C16_MalformedLiteral ==
  /\ prev.tok \in {"1x", "-abc"} => err = "ValueError"
  /\ (prev.tok # "" /\ IsNumeric(prev.tok) /\ err = "ValueError") =>
       /\ stack = prev.stack
       /\ pc = "prompt"
       /\ cmd_ln = prev.seq

C16_Witness ==
  /\ err = "ValueError"
  /\ prev.tok = "1x"
  /\ prev.n = 1
  /\ prev.n + 1 < Len(prev.seq)
  /\ At(stack, 0) = Num(5)
  /\ pc = "prompt"

\* the operator at the cursor lacks an argument token it needs
MissingArgument ==
  /\ AtToken
  /\ ~IsNumeric(Token)
  /\ \/ /\ Token \in {"sto", "rcl", "del", "fix", "scutdel", "scutadd"}
        /\ ~(n + 1 < Len(cmd_ln))
     \/ Token = "scutadd" /\ ~(n + 2 < Len(cmd_ln))

\* C17: STO, RCL, DEL, FIX, SCUTDEL or SCUTADD without its argument(s) is
\* reported (IndexError) and changes neither the stack, the registers, the
\* shortcuts nor the display precision; the process keeps running.
C17_MissingArgument ==
  [][MissingArgument =>
       /\ err' = "IndexError"
       /\ stack' = stack
       /\ mem' = mem
       /\ kbsc' = kbsc
       /\ decimal_places' = decimal_places
       /\ pc' = "loop"]_vars

C17_Witness ==
  /\ err = "IndexError"
  /\ prev.tok = "scutadd"
  /\ Len(prev.seq) = prev.n + 2
  /\ stack = prev.stack
  /\ pc = "loop"

\* C18: RCL or DEL of a register that does not exist changes neither the
\* stack nor the registers, and the next token dispatched is the one after
\* the name argument (the name is not dispatched).
C18_UnknownRegister ==
  [][(/\ Dispatching("rcl") \/ Dispatching("del")
      /\ n + 1 < Len(cmd_ln)
      /\ At(cmd_ln, n + 1) \notin DOMAIN mem) =>
       /\ stack' = stack
       /\ mem' = mem
       /\ cmd_ln' = cmd_ln
       /\ pc' = "loop"
       /\ n' = n + 2]_vars

C18_Witness ==
  /\ Did("del")
  /\ At(prev.seq, prev.n + 1) \notin DOMAIN mem
  /\ n = prev.n + 2
  /\ n < Len(cmd_ln)
  /\ stack = prev.stack

\* C19: in a running program a GTO or GSB to a label that is not in the
\* label map aborts only that action: the next token dispatched is the one
\* after the label argument, never the label name itself.
C19_UndefinedBranch ==
  [][(/\ Dispatching("gto") \/ Dispatching("gsb")
      /\ cmd_ln = prog_listing
      /\ ~Unbound("pdict")
      /\ n + 1 < Len(cmd_ln)
      /\ At(cmd_ln, n + 1) \notin DOMAIN pdict) =>
       /\ pc' = "loop"
       /\ cmd_ln' = cmd_ln
       /\ n' = n + 2]_vars

\* the last step handled a token that is a key of the user's shortcut table
\* (scutadd and scutdel change the table they were resolved with)
UserShortcut ==
  /\ prev.tok \notin {"", "scutadd", "scutdel"}
  /\ prev.n < Len(prev.seq)
  /\ Lower(At(prev.seq, prev.n)) \in DOMAIN kbsc

\* C20 as stated: a token the user's table resolves is dispatched as exactly
\* that table's target, even a target that is a key of the fixed table.
C20_UserTargetDispatched ==
  UserShortcut => prev.tok = kbsc[Lower(At(prev.seq, prev.n))]

\* C20: a token the user's table resolves is dispatched as that table's
\* target, except that a target which is itself a key of the fixed table
\* is dispatched as the fixed table's target for it (one substitution from
\* each table, in that order, and no more).
C20_TwoSubstitutions ==
  UserShortcut =>
    LET t1 == kbsc[Lower(At(prev.seq, prev.n))]
    IN  prev.tok = IF t1 \in DOMAIN kbsc2 THEN kbsc2[t1] ELSE t1

C20_Witness ==
  /\ Did("+")
  /\ prev.n < Len(prev.seq)
  /\ At(prev.seq, prev.n) = "$"
  /\ kbsc["$"] = "="
  /\ At(stack, 0) = RAdd(PrevX, PrevY)

\* C25: the line `4 22 7 / +` on a zero-filled stack first divides 22 by 7
\* and then adds 4: x = 4 + 22/7 with y, z and t equal to 0.
C25_EndToEnd ==
  (/\ LineStarts(<<"4", "22", "7", "/", "+">>)
   /\ stack0 = initstack(stack_size)
   /\ prev.tok = "+"
   /\ prev.n = 4) =>
    /\ err = "none"
    /\ prev.stack = <<Rat(22, 7), Num(4), Zero, Zero>>
    /\ stack = <<Rat(4 * 7 + 22, 7), Zero, Zero, Zero>>

C25_Witness ==
  /\ LineStarts(<<"4", "22", "7", "/", "+">>)
  /\ stack0 = initstack(stack_size)
  /\ Did("+")
  /\ prev.n = 4
  /\ At(stack, 0) = RAdd(Num(4), RDiv(Num(22), Num(7)))

\* the operators that take y and x and leave one result
BinOps == {"+", "-", "*", "/", "^"}

\* the result of such an operator applied to (y, x)
BinResult(op, y, x) ==
  CASE op = "+" -> RAdd(y, x)
    [] op = "-" -> RSub(y, x)
    [] op = "*" -> RMul(y, x)
    [] op = "/" -> RDiv(y, x)
    [] op = "^" -> Pow(y, x).val

\* the operator is defined on (y, x): no division by zero
BinDefined(op, y, x) ==
  /\ op = "/" => ~IsZero(x)
  /\ op = "^" => Pow(y, x).exc = "none"

BranchToLabel(op) ==
  /\ Dispatching(op)
  /\ cmd_ln = prog_listing
  /\ ~Unbound("pdict")
  /\ ~Unbound("lbl_rtn")
  /\ n + 1 < Len(cmd_ln)
  /\ IsLabel(prog_listing, At(cmd_ln, n + 1))

\* the step leaves the cursor on the token after the name of that label
LandsAfterLabel ==
  /\ pc' = "loop"
  /\ cmd_ln' = cmd_ln
  /\ n' >= 2
  /\ At(cmd_ln, n' - 1) = At(cmd_ln, n + 1)
  /\ Lower(At(cmd_ln, n' - 2)) = "lbl"

\* C26: in a running program GTO to a defined label leaves the
\* return-address stack as it is and continues after the label's name; GSB
\* makes the same jump and grows the return-address stack by one entry.
C26_GtoGsbReturnStack ==
  [][/\ BranchToLabel("gto") => (lbl_rtn' = lbl_rtn /\ LandsAfterLabel)
     /\ BranchToLabel("gsb") =>
          /\ Len(lbl_rtn') = Len(lbl_rtn) + 1
          /\ Front(lbl_rtn') = lbl_rtn
          /\ LandsAfterLabel]_vars

C26_Witness ==
  /\ Did("gto")
  /\ prev.seq = prog_listing
  /\ cmd_ln = prog_listing
  /\ lbl_rtn = prev.rtn
  /\ At(cmd_ln, n - 1) = At(prev.seq, prev.n + 1)
  /\ n # prev.n + 2

\* C28: a GSB whose label is not in the label map leaves the return-address
\* stack exactly as it was.
C28_FailedGsbReturnStack ==
  [][(/\ Dispatching("gsb")
      /\ ~Unbound("pdict")
      /\ ~Unbound("lbl_rtn")
      /\ n + 1 < Len(cmd_ln)
      /\ At(cmd_ln, n + 1) \notin DOMAIN pdict) =>
       lbl_rtn' = lbl_rtn]_vars

\* C29: v = pull() followed by push(v) restores every slot of the stack, and
\* so does the sequence pull, pull, push(y), push(x) of the tests and stat.
C29_PullPushIdentity ==
  prev.tok \in {"pull;push", "pull;pull;push;push"} => stack = prev.stack

C29_Witness ==
  /\ prev.tok = "pull;pull;push;push"
  /\ Len(prev.stack) = stack_size
  /\ At(prev.stack, 0) # At(prev.stack, 1)
  /\ At(prev.stack, 2) # At(prev.stack, 3)
  /\ stack = prev.stack

\* C30: rd maps [x, y, z, t] to [y, z, t, x] and ru maps it to [t, x, y, z];
\* rd then ru, ru then rd, and N times rd on a stack of depth N restore the
\* stack: no value is lost.
C30_Rolls ==
  /\ prev.tok = "rd" => stack = Rest(prev.stack) \o <<At(prev.stack, 0)>>
  /\ prev.tok = "ru" => stack = <<Last(prev.stack)>> \o Front(prev.stack)
  /\ prev.tok \in {"rd;ru", "ru;rd", "rd*N"} => stack = prev.stack

C30_Witness ==
  /\ prev.tok = "rd*N"
  /\ Len(prev.stack) = stack_size
  /\ At(prev.stack, 0) # At(prev.stack, 1)
  /\ At(prev.stack, 1) # At(prev.stack, 2)
  /\ At(prev.stack, 2) # At(prev.stack, 3)
  /\ stack = prev.stack

\* the derived statistics a query returns are all zero
DerivedZero(r) ==
  /\ r.Mx = Zero
  /\ r.My = Zero
  /\ r.CCr = Zero
  /\ r.Sa = Zero
  /\ r.YIb = Zero

\* the mean, slope and intercept of r are the ones its six sums give
DerivedCurrent(r) ==
  LET c == Recompute(r)
  IN  r.Mx = c.Mx /\ r.My = c.My /\ r.Sa = c.Sa /\ r.YIb = c.YIb

\* some pair has been taken out of the sums by stat undo
Undone == \E i \in 1..Len(stat_log.ops) : stat_log.ops[i].op = "undo"

\* the modifier of the stat that the last step handled ("" if it had none)
PrevModifier ==
  IF prev.tok = "stat" /\ prev.n + 1 < Len(prev.seq)
  THEN At(prev.seq, prev.n + 1) ELSE ""

\* the last step was a stat that changed the sums: add, undo or clear
Mutated ==
  /\ Did("stat")
  /\ \/ prev.n + 1 = Len(prev.seq)
     \/ PrevModifier \in {"undo", "clear"}

\* C21: whenever the count is below 2 or the sums are degenerate, the
\* derived quantities that stat x, y, r, a and b return are all 0.
C21_DegenerateZero == ~NonDegenerate(stat_regs) => DerivedZero(stat_regs)

\* The rule of C21 does hold as long as no pair has been undone.
DegenerateZeroWithoutUndo ==
  (~Undone /\ ~NonDegenerate(stat_regs)) => DerivedZero(stat_regs)

\* C22: after every add, undo or clear that leaves non-degenerate sums with
\* a count of 2 or more, the mean, slope and intercept the next query
\* pushes are those of the current six sums.
C22_DerivedTrackSums ==
  (Mutated /\ NonDegenerate(stat_regs)) => DerivedCurrent(stat_regs)

\* The rule of C22 does hold for add and clear.
DerivedTrackSumsExceptUndo ==
  (Mutated /\ PrevModifier # "undo" /\ NonDegenerate(stat_regs)) =>
    DerivedCurrent(stat_regs)

\* one entry of the history of the sums
LogEntry(op, x, y) == [op |-> op, x |-> Num(x), y |-> Num(y)]

\* the pairs (1, 2) and (3, 4) were added to a cleared accumulator, and a
\* query was the last step
TwoPairsQueried ==
  /\ stat_log.start = InitStat(StatZero)
  /\ stat_log.ops \in {<<LogEntry("add", 1, 2), LogEntry("add", 3, 4)>>,
                       <<LogEntry("add", 3, 4), LogEntry("add", 1, 2)>>}
  /\ Did("stat")
  /\ PrevModifier \in {"a", "b"}

\* C23: from a cleared accumulator, adding (1, 2) and (3, 4) and querying
\* gives slope a = 1 and intercept b = 1.
C23_LineThroughTwoPairs ==
  TwoPairsQueried =>
    /\ stat_regs.Sa = Num(1)
    /\ stat_regs.YIb = Num(1)
    /\ At(stack, 0) = Num(1)
    /\ Rest(stack) = Front(prev.stack)

C23_Witness ==
  /\ TwoPairsQueried
  /\ PrevModifier = "b"
  /\ At(stack, 0) = Num(1)
  /\ At(prev.stack, 0) = Num(3)

\* C24: stat est leaves the six sums as they are and pushes
\* slope * x + intercept for the x on top of the stack.
C24_EstimateFrame ==
  [][(/\ Dispatching("stat")
      /\ n + 1 < Len(cmd_ln)
      /\ At(cmd_ln, n + 1) = "est") =>
       /\ stat_regs'.Sn = stat_regs.Sn
       /\ stat_regs'.Sx = stat_regs.Sx
       /\ stat_regs'.Sy = stat_regs.Sy
       /\ stat_regs'.Sx2 = stat_regs.Sx2
       /\ stat_regs'.Sy2 = stat_regs.Sy2
       /\ stat_regs'.Sxy = stat_regs.Sxy
       /\ err' = "none" =>
            stack' = <<RAdd(RMul(stat_regs'.Sa, At(stack, 0)),
                            stat_regs'.YIb)>> \o Front(stack)]_vars

C24_Witness ==
  /\ Did("stat")
  /\ PrevModifier = "est"
  /\ NonDegenerate(stat_regs)
  /\ stat_regs.YIb # Zero
  /\ PrevX # Zero
  /\ At(stack, 0) = RAdd(RMul(stat_regs.Sa, PrevX), stat_regs.YIb)

\* C31: the pair count of the accumulator is never negative, whatever
\* sequence of stat add, stat undo and stat clear has run.
C31_CountNonNegative == ~RLt(stat_regs.Sn, Zero)

\* The count stays at or above zero while no pair has been undone.
CountNonNegativeWithoutUndo == ~Undone => ~RLt(stat_regs.Sn, Zero)

\* the six sums of the accumulator r
SixSums(r) == <<r.Sn, r.Sx, r.Sy, r.Sx2, r.Sy2, r.Sxy>>

\* the six sums of r once the pair (x, y) has gone in (k = 1) or out (k = -1)
SixSumsWith(r, x, y, k) ==
  <<RAdd(r.Sn, Num(k)),
    RAdd(r.Sx, RMul(Num(k), x)),
    RAdd(r.Sy, RMul(Num(k), y)),
    RAdd(r.Sx2, RMul(Num(k), RMul(x, x))),
    RAdd(r.Sy2, RMul(Num(k), RMul(y, y))),
    RAdd(r.Sxy, RMul(Num(k), RMul(x, y)))>>

\* C32: stat adds the pair (x, y) to the six sums only as the last token of
\* the active sequence; a token after it is consumed as its modifier, is
\* never at the cursor of a dispatch step, and no pair is added (undo takes
\* the pair out, clear zeroes the sums, anything else leaves them alone).
C32_StatModifier ==
  [][Dispatching("stat") =>
       LET x == At(stack, 0)
           y == At(stack, 1)
           m == IF n + 1 < Len(cmd_ln) THEN At(cmd_ln, n + 1) ELSE ""
       IN  IF n + 1 = Len(cmd_ln)
           THEN SixSums(stat_regs') = SixSumsWith(stat_regs, x, y, 1)
           ELSE /\ pc' = "loop" => n' = n + 2
                /\ cmd_ln' = cmd_ln
                /\ m \notin {"undo", "clear"} =>
                     SixSums(stat_regs') = SixSums(stat_regs)
                /\ m = "undo" =>
                     SixSums(stat_regs') = SixSumsWith(stat_regs, x, y, -1)
                /\ m = "clear" =>
                     SixSums(stat_regs') = SixSums(StatZero)]_vars

\* in the program listing, rtn after stat was taken as the modifier: no pair
\* went in and the program ran on into the next label
C32_Witness ==
  /\ Did("stat")
  /\ prev.seq = prog_listing
  /\ PrevModifier = "rtn"
  /\ PrevX = Num(1)
  /\ PrevY = Num(2)
  /\ pc = "loop"
  /\ n = prev.n + 2
  /\ stat_regs = stat_log.start

\* on the input line, a number after stat was taken as the modifier
C32_NumberModifier ==
  /\ Did("stat")
  /\ PrevModifier = "7"
  /\ stack = prev.stack
  /\ stat_regs = stat_log.start

\* stat as the last token added the pair
C32_Added ==
  /\ Did("stat")
  /\ prev.n + 1 = Len(prev.seq)
  /\ SixSums(stat_regs) = SixSumsWith(stat_log.start, PrevX, PrevY, 1)
  /\ PrevX # Zero

\* the dispatch loop is walking the program listing, or the two no-ops that
\* an ending rtn put in its place
InListing == pc = "loop" /\ cmd_ln \in {prog_listing, <<"nop", "nop">>}

\* C33: once exc has switched the active sequence to the program listing,
\* the tokens after exc <label> on the input line are never dispatched: the
\* loop walks the listing (or the no-ops of an ending rtn) and nothing else
\* until the prompt, and at the end of either it goes back to the prompt.
C33_RestOfLineDropped ==
  [][/\ (/\ Dispatching("exc")
         /\ n + 1 < Len(cmd_ln)
         /\ IsLabel(prog_listing, At(cmd_ln, n + 1))) =>
          (cmd_ln' = prog_listing /\ pc' = "loop")
     /\ InListing => cmd_ln' \in {prog_listing, <<"nop", "nop">>}
     /\ (Dispatching("rtn") /\ InListing /\ lbl_rtn = << >>) =>
          (cmd_ln' = <<"nop", "nop">> /\ n' = 1 /\ stack' = stack)
     /\ (pc = "loop" /\ cmd_ln = <<"nop", "nop">>) =>
          UNCHANGED <<stack, mem, kbsc, stat_regs, lbl_rtn, cmd_ln>>
     /\ (InListing /\ n >= Len(cmd_ln)) =>
          (pc' = "prompt" /\ stack' = stack)]_vars

\* exc has just switched to the listing and left tokens behind on the line
C33_Witness ==
  /\ Did("exc")
  /\ Len(prev.seq) > prev.n + 2
  /\ IsLabel(prog_listing, At(prev.seq, prev.n + 1))
  /\ prev.seq # prog_listing
  /\ cmd_ln = prog_listing
  /\ pc = "loop"

\* the program ended with rtn and the interpreter is back at the prompt
C33_EndedByRtn ==
  /\ pc = "prompt"
  /\ lineNo > 0
  /\ prev.tok = ""
  /\ prev.seq = <<"nop", "nop">>
  /\ prev.n = 2

\* the program ran off the end of the listing and the interpreter is back at
\* the prompt
C33_EndedByListing ==
  /\ pc = "prompt"
  /\ lineNo > 0
  /\ prev.tok = ""
  /\ prev.seq = prog_listing
  /\ prev.n = Len(prog_listing)

\* the positions of listing at which name stands as the name of a label
LabelPositions(listing, name) ==
  {i \in 1..(Len(listing) - 1) :
     Lower(At(listing, i - 1)) = "lbl" /\ At(listing, i) = name}

\* the last of them
LastLabel(listing, name) ==
  CHOOSE i \in LabelPositions(listing, name) :
    \A j \in LabelPositions(listing, name) : j <= i

\* the names of the labels of listing
LabelNames(listing) ==
  {At(listing, i) : i \in {j \in 1..(Len(listing) - 1) :
                             Lower(At(listing, j - 1)) = "lbl"}}

\* C34: exc, gto and gsb to a label name resolve it to its last occurrence
\* in the program listing, and the label map holds exactly one position for
\* each distinct name, the last one.
C34_LastMatchWins ==
  [][/\ (/\ Dispatching("exc")
         /\ n + 1 < Len(cmd_ln)
         /\ IsLabel(prog_listing, At(cmd_ln, n + 1))) =>
          /\ n' = LastLabel(prog_listing, At(cmd_ln, n + 1)) + 1
          /\ DOMAIN pdict' = LabelNames(prog_listing)
          /\ \A name \in LabelNames(prog_listing) :
               pdict'[name] = LastLabel(prog_listing, name)
     /\ \A op \in {"gto", "gsb"} :
          BranchToLabel(op) =>
            /\ n' = LastLabel(prog_listing, At(cmd_ln, n + 1)) + 1
            /\ pdict' = pdict]_vars

\* a branch of kind op to a name the listing has twice went to the second
BranchedToDuplicate(op) ==
  /\ Did(op)
  /\ prev.n + 1 < Len(prev.seq)
  /\ \E i, j \in LabelPositions(prog_listing, At(prev.seq, prev.n + 1)) :
       i < j /\ n = j + 1
  /\ cmd_ln = prog_listing

C34_Witness == BranchedToDuplicate("gto") /\ prev.seq = prog_listing

C34_ExcToDuplicate == BranchedToDuplicate("exc")

C34_GsbToDuplicate == BranchedToDuplicate("gsb") /\ prev.seq = prog_listing

\* the operators that move the cursor somewhere else or wait for the user
BranchOps == {"exc", "gto", "gsb", "rtn", "pse"}

\* no token of seq is one of them once the shortcuts are resolved
BranchFree(seq) ==
  \A i \in 0..(Len(seq) - 1) : Resolve(At(seq, i), kbsc) \notin BranchOps

\* the step moved the cursor forward on the same line, or ended the line at
\* the prompt
CursorAdvanced ==
  \/ pc' = "loop" /\ cmd_ln' = cmd_ln /\ n' > n
  \/ pc' = "prompt"

\* C35: on a line with no exc, gto, gsb, rtn or pse, every dispatch step,
\* also one that reports an error, moves the cursor forward or ends the
\* line, so the interpreter gets back to the prompt.
C35_BranchFreeTerminates ==
  [][(AtToken /\ BranchFree(cmd_ln)) => CursorAdvanced]_vars

\* Every dispatch step of such a line other than x<=0? does so.
BranchFreeAdvancesExceptLe0 ==
  [][(AtToken /\ BranchFree(cmd_ln) /\ Token # "x<=0?") =>
       CursorAdvanced]_vars

\* a step that reported IndexError on such a line and still moved on
C35_ErrorStepAdvanced ==
  /\ err = "IndexError"
  /\ pc = "loop"
  /\ BranchFree(prev.seq)
  /\ cmd_ln = prev.seq
  /\ n > prev.n

====
